---- MODULE Spec2Model ----
(***************************************************************************)
(* Model of QueueSystem (src/queue_system.py): the queue manager that      *)
(* keeps, per location, a list of queue entries with a status and a        *)
(* position, over a location store that is either a remote table           *)
(* (DynamoDBQueueStorage) or a local JSON file, with the in-process         *)
(* mirror self.queues in between.                                          *)
(*                                                                         *)
(* A location id is a pair <<first 8 characters, rest>> of the uuid4       *)
(* string, so that location_id[:8] is the first component.  A queue id is  *)
(* the pair <<location_id[:8], unique_id>>.  Timestamps are abstracted:    *)
(* updated_at is a per-record counter that every refresh increases, and    *)
(* the write-once stamps joined_at / served_at / left_at are left out.     *)
(***************************************************************************)
EXTENDS Integers, Sequences, FiniteSets, TLC

\* ---- bounds -------------------------------------------------------------
\* Spec and SpecApp, the runs on two locations:
\* number of queue entries held by all locations together
MaxEntries == 2
\* Spec: number of storage calls (remote reads, writes) that fail in one run
MaxFailures == 1
\* SpecNoFailure, the runs of one location without storage failures:
\* number of queue entries held by the location
QueueEntries == 4
\* SpecConcurrent, the runs of two requests at a time on one location:
\* number of queue entries in the record a join_queue has read
RequestEntries == 1
\* all: number of distinct values of the 8-character unique_id of a queue id
MaxSuffix == 2

\* the uuid4 strings create_location can draw: the first one drawn is called
\* FirstId, the second one either shares its first 8 characters with it or
\* does not
FirstId == <<1, 1>>
LocIds == {FirstId, <<1, 2>>, <<2, 1>>}
\* the location ids of the runs of one location
QueueLocIds == {FirstId}
Suffixes == 1..MaxSuffix
NoLoc == <<0, 0>>

VARIABLES
    mode,     \* "remote" when self.dynamodb is set, "local" otherwise
    table,    \* the remote table: location_id -> location record
    queues,   \* self.queues, the in-process mirror of the locations
    data_file, \* the mapping serialised in the file self.data_file
    used,     \* location ids create_location has generated so far
    failures, \* number of storage calls that have failed so far
    last,     \* the last call: operation, location, code path, entry index
    requests  \* the calls in flight: what each has read and not yet written

vars == <<mode, table, queues, data_file, used, failures, last, requests>>

\* ---- helpers ------------------------------------------------------------
\* location_id[:8]
Prefix8(l) == l[1]

\* f"{location_id[:8]}-{unique_id}"
MakeQueueId(l, sfx) == <<Prefix8(l), sfx>>

QueueIds == {MakeQueueId(l, s) : l \in LocIds, s \in Suffixes}

\* the location dict built by create_location
NewLocation == [current_queue |-> << >>, served_count |-> 0, updated_at |-> 0]

\* d[k] = v on a dict
Put(d, k, v) == [x \in (DOMAIN d) \cup {k} |-> IF x = k THEN v ELSE d[x]]

\* del d[k]
Del(d, k) == [x \in (DOMAIN d) \ {k} |-> d[x]]

\* [e for e in current_queue if e['status'] == 'waiting'], as list indices
RECURSIVE WaitingIdx(_, _)
WaitingIdx(q, i) ==
    IF i > Len(q) THEN << >>
    ELSE IF q[i].status = "waiting" THEN <<i>> \o WaitingIdx(q, i + 1)
    ELSE WaitingIdx(q, i + 1)

\* mutant of Waiting: the filter written as status != 'served'
WaitingOrLeft(q) ==
    LET NotServed(i) == q[i].status # "served"
    IN  SelectSeq([i \in 1..Len(q) |-> i], NotServed)

Waiting(q) == WaitingIdx(q, 1)

\* one step of a stable insertion: i goes behind every index whose position
\* is not larger
RECURSIVE InsertByPosition(_, _, _)
InsertByPosition(s, i, q) ==
    IF s = << >> THEN <<i>>
    ELSE IF q[Head(s)].position <= q[i].position
         THEN <<Head(s)>> \o InsertByPosition(Tail(s), i, q)
         ELSE <<i>> \o s

\* list.sort(key=position) / sorted(..., key=position): stable
RECURSIVE SortByPosition(_, _)
SortByPosition(idx, q) ==
    IF idx = << >> THEN << >>
    ELSE InsertByPosition(SortByPosition(SubSeq(idx, 1, Len(idx) - 1), q),
                          idx[Len(idx)], q)

\* number of entries in all the locations of the dict d
RECURSIVE TotalEntries(_)
TotalEntries(d) ==
    IF DOMAIN d = {} THEN 0
    ELSE LET k == CHOOSE x \in DOMAIN d : TRUE
         IN  Len(d[k].current_queue) + TotalEntries(Del(d, k))

\* index of x in the sequence s (x occurs in s)
IndexIn(s, x) == CHOOSE k \in 1..Len(s) : s[k] = x

\* ---- get_location -------------------------------------------------------
\* mutant of MirrorAfterGet: a location that is not found is entered into
\* self.queues as a new empty location
MirrorAfterGetCreates(l, rok) ==
    IF mode = "remote" /\ rok /\ l \in DOMAIN table
    THEN Put(queues, l, table[l])
    ELSE IF l \in DOMAIN queues THEN queues
    ELSE Put(queues, l, NewLocation)

\* self.queues after get_location(l): a successful remote read that finds
\* the location replaces the mirror's copy
MirrorAfterGet(l, rok) ==
    IF mode = "remote" /\ rok /\ l \in DOMAIN table
    THEN Put(queues, l, table[l])
    ELSE queues

\* whether get_location(l) returns a location
Found(l, rok) ==
    IF mode = "remote" /\ rok THEN l \in DOMAIN table ELSE l \in DOMAIN queues

\* the location get_location(l) returns (Found(l, rok) holds)
GetLocation(l, rok) == MirrorAfterGet(l, rok)[l]

\* ---- the mutations on the location dict ---------------------------------
\* mutant of JoinPosition: the + 1 forgotten
JoinPositionZeroBased(loc) == Len(Waiting(loc.current_queue))

\* join_queue: the entry appended, position = number waiting + 1
JoinPosition(loc) == Len(Waiting(loc.current_queue)) + 1

\* mutant of Joined: current_queue.insert(0, entry) in the place of append
JoinedInFront(loc, l, sfx) ==
    [loc EXCEPT
        !.current_queue = <<[id |-> MakeQueueId(l, sfx),
                             position |-> JoinPosition(loc),
                             status |-> "waiting"]>> \o @,
        !.updated_at = @ + 1]

Joined(loc, l, sfx) ==
    [loc EXCEPT
        !.current_queue = Append(@, [id |-> MakeQueueId(l, sfx),
                                     position |-> JoinPosition(loc),
                                     status |-> "waiting"]),
        !.updated_at = @ + 1]

\* mutant of NextPerson: waiting_queue[-1], the largest position
NextPersonLast(loc) ==
    LET sorted == SortByPosition(Waiting(loc.current_queue), loc.current_queue)
    IN  sorted[Len(sorted)]

\* mutant of NextPerson: the sort forgotten, the first waiting entry of the list
NextPersonUnsorted(loc) == Waiting(loc.current_queue)[1]

\* serve_next: waiting_queue[0] of the queue sorted by position
NextPerson(loc) == SortByPosition(Waiting(loc.current_queue), loc.current_queue)[1]

\* mutant of Served: the served_count line forgotten
ServedNotCounted(loc) ==
    [loc EXCEPT
        !.current_queue[NextPerson(loc)].status = "served",
        !.updated_at = @ + 1]

Served(loc) ==
    [loc EXCEPT
        !.current_queue[NextPerson(loc)].status = "served",
        !.served_count = @ + 1,
        !.updated_at = @ + 1]

\* mutant of Matching: the status test forgotten, any entry with the id
MatchingAnyStatus(loc, qid) ==
    {i \in 1..Len(loc.current_queue) : loc.current_queue[i].id = qid}

\* leave_queue: the entries the loop can match
Matching(loc, qid) ==
    {i \in 1..Len(loc.current_queue) :
        /\ loc.current_queue[i].id = qid
        /\ loc.current_queue[i].status = "waiting"}

\* the first match in list order
Leaver(loc, qid) ==
    CHOOSE i \in Matching(loc, qid) : \A j \in Matching(loc, qid) : i <= j

\* mutant of Renumbered: enumerate() without its start argument, 0..n-1
RenumberedFromZero(q) ==
    LET order == SortByPosition(Waiting(q), q)
    IN  [i \in 1..Len(q) |->
            IF q[i].status = "waiting"
            THEN [q[i] EXCEPT !.position = IndexIn(order, i) - 1]
            ELSE q[i]]

\* positions 1..n handed out over the waiting entries sorted by position
Renumbered(q) ==
    LET order == SortByPosition(Waiting(q), q)
    IN  [i \in 1..Len(q) |->
            IF q[i].status = "waiting"
            THEN [q[i] EXCEPT !.position = IndexIn(order, i)]
            ELSE q[i]]

\* mutant of Left: the entry taken out of the list instead of marked 'left'
LeftRemoved(loc, qid) ==
    LET q == loc.current_queue
        k == Leaver(loc, qid)
    IN  [loc EXCEPT !.current_queue =
                        Renumbered(SubSeq(q, 1, k - 1) \o SubSeq(q, k + 1, Len(q))),
                    !.updated_at = @ + 1]

Left(loc, qid) ==
    LET marked == [loc.current_queue EXCEPT ![Leaver(loc, qid)].status = "left"]
    IN  [loc EXCEPT !.current_queue = Renumbered(marked),
                    !.updated_at = @ + 1]

\* ---- persisting ---------------------------------------------------------
\* the write every mutation ends with: put_location(location) in remote
\* mode, save_queues() (the whole of self.queues into the file) in local mode
StoreAfterWrite(l, loc, wok) ==
    IF mode = "remote" /\ wok THEN Put(table, l, loc) ELSE table

FileAfterWrite(m, wok) ==
    IF mode = "local" /\ wok THEN m ELSE data_file

\* the storage calls of one operation: rok is the outcome of its remote read
\* (local mode makes none), wok the outcome of its write (a path that writes
\* nothing passes wok = TRUE)
Storage(rok, wok) ==
    /\ mode = "local" => rok
    /\ failures' = failures + (IF rok THEN 0 ELSE 1) + (IF wok THEN 0 ELSE 1)
    /\ failures' <= MaxFailures

Call(op, l, path, idx) == [op |-> op, loc |-> l, path |-> path, idx |-> idx]

\* what a call hands to its caller, from its return and raise statements:
\* create_location returns the id or re-raises; join_queue returns the queue
\* id, serve_next the entry, get_queue_position the dict and
\* get_location_from_queue_id the location id, or None; leave_queue and
\* delete_location return True or False; the route answers a form with a
\* missing field with the message 'Missing required fields'
Outcome(c) ==
    IF c.path = "invalid" THEN "Missing required fields"
    ELSE IF c.op = "create"
         THEN IF c.path = "ok" THEN "value" ELSE "raise"
    ELSE IF c.op \in {"leave", "delete"}
         THEN IF c.path = "ok" THEN "True" ELSE "False"
    ELSE IF c.path = "ok" THEN "value" ELSE "None"

\* the requests the server handles at a time, each a thread that calls one
\* method of the one QueueSystem object
Requests == {"r1", "r2"}

\* a request that is in no call
Idle == [pc |-> "idle", op |-> "none", loc |-> NoLoc, arg |-> NoLoc,
         obj |-> NewLocation, mirrored |-> FALSE, path |-> "none"]

\* ---- operations ---------------------------------------------------------
Init ==
    /\ mode \in {"local", "remote"}
    /\ table = << >>
    /\ queues = << >>
    /\ data_file = << >>
    /\ used = {}
    /\ failures = 0
    /\ last = Call("init", NoLoc, "ok", 0)
    /\ requests = [r \in Requests |-> Idle]

\* create_location: remote mode writes the table first and self.queues only
\* after it; local mode puts the location in self.queues, then saves
CreateLocation(l, wok) ==
    /\ l \in LocIds \ used
    /\ used' = used \cup {l}
    /\ UNCHANGED <<requests, mode>>
    /\ Storage(TRUE, wok)
    /\ table' = StoreAfterWrite(l, NewLocation, wok)
    /\ queues' = IF mode = "remote" /\ ~wok THEN queues
                 ELSE Put(queues, l, NewLocation)
    /\ data_file' = FileAfterWrite(queues', wok)
    /\ last' = Call("create", l, IF wok THEN "ok" ELSE "error", 0)

\* join_queue
JoinQueue(l, sfx, rok, wok, maxEntries) ==
    /\ l \in used
    /\ UNCHANGED <<requests, mode, used>>
    /\ Storage(rok, wok)
    /\ IF ~Found(l, rok)
       THEN /\ wok
            /\ queues' = MirrorAfterGet(l, rok)
            /\ UNCHANGED <<table, data_file>>
            /\ last' = Call("join", l, "notfound", 0)
       ELSE LET loc == GetLocation(l, rok)
                new == Joined(loc, l, sfx)
            IN  /\ TotalEntries(MirrorAfterGet(l, rok)) < maxEntries
                /\ queues' = Put(MirrorAfterGet(l, rok), l, new)
                /\ table' = StoreAfterWrite(l, new, wok)
                /\ data_file' = FileAfterWrite(queues', wok)
                /\ last' = Call("join", l, IF wok THEN "ok" ELSE "error",
                                Len(new.current_queue))

\* serve_next
ServeNext(l, rok, wok) ==
    /\ l \in used
    /\ UNCHANGED <<requests, mode, used>>
    /\ Storage(rok, wok)
    /\ IF ~Found(l, rok)
       THEN /\ wok
            /\ queues' = MirrorAfterGet(l, rok)
            /\ UNCHANGED <<table, data_file>>
            /\ last' = Call("serve", l, "notfound", 0)
       ELSE LET loc == GetLocation(l, rok)
            IN  IF Waiting(loc.current_queue) = << >>
                THEN /\ wok
                     /\ queues' = MirrorAfterGet(l, rok)
                     /\ UNCHANGED <<table, data_file>>
                     /\ last' = Call("serve", l, "empty", 0)
                ELSE LET new == Served(loc)
                     IN  /\ queues' = Put(MirrorAfterGet(l, rok), l, new)
                         /\ table' = StoreAfterWrite(l, new, wok)
                         /\ data_file' = FileAfterWrite(queues', wok)
                         /\ last' = Call("serve", l,
                                         IF wok THEN "ok" ELSE "error",
                                         NextPerson(loc))

\* leave_queue
LeaveQueue(l, qid, rok, wok) ==
    /\ l \in used
    /\ UNCHANGED <<requests, mode, used>>
    /\ Storage(rok, wok)
    /\ IF ~Found(l, rok)
       THEN /\ wok
            /\ queues' = MirrorAfterGet(l, rok)
            /\ UNCHANGED <<table, data_file>>
            /\ last' = Call("leave", l, "notfound", 0)
       ELSE LET loc == GetLocation(l, rok)
            IN  IF Matching(loc, qid) = {}
                THEN /\ wok
                     /\ queues' = MirrorAfterGet(l, rok)
                     /\ UNCHANGED <<table, data_file>>
                     /\ last' = Call("leave", l, "nomatch", 0)
                ELSE LET new == Left(loc, qid)
                     IN  /\ queues' = Put(MirrorAfterGet(l, rok), l, new)
                         /\ table' = StoreAfterWrite(l, new, wok)
                         /\ data_file' = FileAfterWrite(queues', wok)
                         /\ last' = Call("leave", l,
                                         IF wok THEN "ok" ELSE "error",
                                         Leaver(loc, qid))

\* mutant of DeleteLocation: del self.queues[location_id] forgotten
DeleteLocationKeepsMirror(l, wok) ==
    /\ l \in used
    /\ UNCHANGED <<requests, mode, used, queues>>
    /\ Storage(TRUE, wok)
    /\ IF l \notin DOMAIN queues
       THEN /\ wok
            /\ UNCHANGED <<table, data_file>>
            /\ last' = Call("delete", l, "notfound", 0)
       ELSE IF mode = "remote" /\ ~wok
       THEN /\ UNCHANGED <<table, data_file>>
            /\ last' = Call("delete", l, "error", 0)
       ELSE /\ table' = IF mode = "remote" THEN Del(table, l) ELSE table
            /\ data_file' = FileAfterWrite(queues', wok)
            /\ last' = Call("delete", l, IF wok THEN "ok" ELSE "error", 0)

\* delete_location: looks the id up in self.queues, deletes remotely,
\* then from self.queues; local mode saves the file
DeleteLocation(l, wok) ==
    /\ l \in used
    /\ UNCHANGED <<requests, mode, used>>
    /\ Storage(TRUE, wok)
    /\ IF l \notin DOMAIN queues
       THEN /\ wok
            /\ UNCHANGED <<table, queues, data_file>>
            /\ last' = Call("delete", l, "notfound", 0)
       ELSE IF mode = "remote" /\ ~wok
       THEN /\ UNCHANGED <<table, queues, data_file>>
            /\ last' = Call("delete", l, "error", 0)
       ELSE /\ table' = IF mode = "remote" THEN Del(table, l) ELSE table
            /\ queues' = Del(queues, l)
            /\ data_file' = FileAfterWrite(queues', wok)
            /\ last' = Call("delete", l, IF wok THEN "ok" ELSE "error", 0)

\* load_queues, which the constructor ends with, run by a restart of the
\* process over the stored data: remote mode lists the table into
\* self.queues; when the listing fails, and in local mode, self.queues is
\* what the file holds ({} when there is no file)
LoadQueues(rok) ==
    /\ UNCHANGED <<requests, mode, used, table, data_file>>
    /\ Storage(rok, TRUE)
    /\ queues' = IF mode = "remote" /\ rok THEN table ELSE data_file
    /\ last' = Call("load", NoLoc, "ok", 0)

\* ---- a mutation in two steps: the remote read, then the remote write -----
\* join_queue, serve_next or leave_queue up to the return of get_location:
\* the request holds the dict the table returned, which is now also
\* self.queues[l] (line 218), in the place of the dict an earlier reader holds
BeginRequest(r, op, l, arg) ==
    /\ mode = "remote"
    /\ requests[r].pc # "read"
    /\ l \in used
    /\ UNCHANGED <<mode, used, table, data_file, failures>>
    /\ queues' = MirrorAfterGet(l, TRUE)
    /\ IF ~Found(l, TRUE)
       THEN /\ requests' = [requests EXCEPT ![r] =
                               [Idle EXCEPT !.pc = "done", !.op = op, !.loc = l,
                                            !.arg = arg, !.path = "notfound"]]
            /\ last' = Call(op, l, "notfound", 0)
       ELSE /\ requests' =
                  [x \in Requests |->
                      IF x = r
                      THEN [pc |-> "read", op |-> op, loc |-> l, arg |-> arg,
                            obj |-> table[l], mirrored |-> TRUE, path |-> "none"]
                      ELSE IF requests[x].loc = l
                      THEN [requests[x] EXCEPT !.mirrored = FALSE]
                      ELSE requests[x]]
            /\ last' = last

\* mutant of Snapshot: the location read again from the table before the write
SnapshotReread(r) == table[requests[r].loc]

\* the dict the rest of the call works on: the one its get_location returned
Snapshot(r) == requests[r].obj

\* the rest of the call: the mutation of the dict the request holds and
\* put_location of that dict, the whole record; sfx is the unique_id a
\* join_queue draws
FinishRequest(r, sfx, maxEntries) ==
    LET q == requests[r]
        l == q.loc
        loc == Snapshot(r)
        path == IF q.op = "serve" /\ Waiting(loc.current_queue) = << >>
                THEN "empty"
                ELSE IF q.op = "leave" /\ Matching(loc, q.arg) = {}
                THEN "nomatch"
                ELSE "ok"
        new == IF path # "ok" THEN loc
               ELSE IF q.op = "join" THEN Joined(loc, l, sfx)
               ELSE IF q.op = "serve" THEN Served(loc)
               ELSE Left(loc, q.arg)
        idx == IF path # "ok" THEN 0
               ELSE IF q.op = "join" THEN Len(new.current_queue)
               ELSE IF q.op = "serve" THEN NextPerson(loc)
               ELSE Leaver(loc, q.arg)
    IN  /\ q.pc = "read"
        /\ q.op = "join" => Len(loc.current_queue) < maxEntries
        /\ UNCHANGED <<mode, used, data_file, failures>>
        /\ table' = IF path = "ok" THEN Put(table, l, new) ELSE table
        /\ queues' = IF path = "ok" /\ q.mirrored THEN Put(queues, l, new)
                     ELSE queues
        /\ requests' = [requests EXCEPT ![r] =
                           [Idle EXCEPT !.pc = "done", !.op = q.op, !.loc = l,
                                        !.arg = IF q.op = "join"
                                                THEN MakeQueueId(l, sfx)
                                                ELSE q.arg,
                                        !.path = path]]
        /\ last' = Call(q.op, l, path, idx)

\* ---- the lookups ---------------------------------------------------------
\* get_queue_position: get_location, then the first entry of the list with
\* this id and status 'waiting' (the test leave_queue makes); no write
GetQueuePosition(l, qid, rok) ==
    /\ l \in used
    /\ UNCHANGED <<requests, mode, used, table, data_file>>
    /\ Storage(rok, TRUE)
    /\ queues' = MirrorAfterGet(l, rok)
    /\ IF ~Found(l, rok)
       THEN last' = Call("position", l, "notfound", 0)
       ELSE LET loc == GetLocation(l, rok)
            IN  IF Matching(loc, qid) = {}
                THEN last' = Call("position", l, "nomatch", 0)
                ELSE last' = Call("position", l, "ok", Leaver(loc, qid))

\* average_time_per_person, in minutes
AverageTimePerPerson == 5

\* _estimate_wait_time
EstimateWaitTime(position) == position * AverageTimePerPerson

\* the dict get_queue_position returns for the entry at index idx of the
\* location loc (user_name and joined_at left out)
QueuePosition(loc, idx) ==
    [position |-> loc.current_queue[idx].position,
     total_in_queue |-> Len(Waiting(loc.current_queue)),
     estimated_wait |-> EstimateWaitTime(loc.current_queue[idx].position)]

\* the dict get_queue_stats returns for the location loc (location_name and
\* capacity left out): served_count counts the entries with status 'served',
\* total_served is the counter of the location
GetQueueStats(loc) ==
    [waiting_count |-> Len(Waiting(loc.current_queue)),
     served_count |-> Len(SelectSeq(loc.current_queue,
                                    LAMBDA e : e.status = "served")),
     total_served |-> loc.served_count,
     estimated_wait |-> EstimateWaitTime(Len(Waiting(loc.current_queue)))]

\* the keys of the dict d in the order a loop over it visits them, the order
\* of insertion: create_location inserts them, FirstId before any other id
RECURSIVE KeysInOrder(_)
KeysInOrder(d) ==
    IF DOMAIN d = {} THEN << >>
    ELSE LET k == IF FirstId \in DOMAIN d THEN FirstId
                  ELSE CHOOSE x \in DOMAIN d : TRUE
         IN  <<k>> \o KeysInOrder(Del(d, k))

\* queue_id.split('-')[0]
LocationPart(qid) == qid[1]

\* the keys of self.queues that start with the location part of the queue id
StartsWith(d, qid) ==
    SelectSeq(KeysInOrder(d), LAMBDA k : Prefix8(k) = LocationPart(qid))

\* get_location_from_queue_id: the first such key, None when there is none
LocationFromQueueId(d, qid) ==
    IF StartsWith(d, qid) = << >> THEN NoLoc ELSE Head(StartsWith(d, qid))

GetLocationFromQueueId(qid) ==
    /\ UNCHANGED <<requests, mode, used, table, queues, data_file, failures>>
    /\ last' = Call("locate", LocationFromQueueId(queues, qid),
                    IF LocationFromQueueId(queues, qid) = NoLoc
                    THEN "notfound" ELSE "ok", 0)

\* ---- the join form -------------------------------------------------------
\* the user_name field of the form: missing or empty, or a name
Names == {"", "A"}

\* mutant of AllFields: only the location id is required
AllFieldsLocationOnly(l, user_name) == l # NoLoc

\* all([location_id, user_name])
AllFields(l, user_name) == l # NoLoc /\ user_name # ""

\* app.join_queue, the route: the required fields are checked before
\* queue_system.join_queue is called
AppJoinQueue(l, user_name, sfx, rok, wok, maxEntries) ==
    IF ~AllFields(l, user_name)
    THEN /\ UNCHANGED <<requests, mode, table, queues, data_file, used, failures>>
         /\ last' = Call("join", l, "invalid", 0)
    ELSE JoinQueue(l, sfx, rok, wok, maxEntries)

\* ---- the inputs drawn ---------------------------------------------------
\* str(uuid.uuid4()) in create_location.  The ids are interchangeable, so the
\* first draw is called FirstId and the second is any other id; a run creates
\* at most two locations.
LocationDraws ==
    IF used = {} THEN {FirstId}
    ELSE IF used = {FirstId} THEN LocIds \ {FirstId}
    ELSE {}

\* the unique_id values that occur in the entries of the dict d
SuffixesIn(d) ==
    UNION {{d[l].current_queue[i].id[2] : i \in 1..Len(d[l].current_queue)} :
              l \in DOMAIN d}

\* str(uuid.uuid4())[:8] in join_queue.  All the code does with a unique_id
\* is compare ids for equality, so the values are interchangeable: a draw is
\* either one of the values some entry has or the smallest value none has.
UniqueIdDraws ==
    LET inUse == SuffixesIn(table) \cup SuffixesIn(queues) \cup SuffixesIn(data_file)
    IN  {s \in Suffixes : s \in inUse \/ \A u \in Suffixes \ inUse : s <= u}

\* the ids of the entries of location l in the dict d
IdsIn(d, l) ==
    IF l \in DOMAIN d
    THEN {d[l].current_queue[i].id : i \in 1..Len(d[l].current_queue)}
    ELSE {}

\* the queue ids a caller passes with location l.  leave_queue and
\* get_queue_position only compare the id with the ids of the entries of the
\* location they read, so every id that no entry of l has gives the same
\* step: the draws are the ids of l's entries and one id that is none of them.
QueueIdDraws(l) ==
    LET inUse == IdsIn(table, l) \cup IdsIn(queues, l)
    IN  inUse \cup {CHOOSE q \in QueueIds \ inUse : TRUE}

\* every call, up to MaxFailures storage calls failing
Next ==
    \/ \E l \in LocationDraws, wok \in BOOLEAN : CreateLocation(l, wok)
    \/ \E l \in LocIds, s \in UniqueIdDraws, rok, wok \in BOOLEAN : JoinQueue(l, s, rok, wok, MaxEntries)
    \/ \E l \in LocIds, rok, wok \in BOOLEAN : ServeNext(l, rok, wok)
    \/ \E l \in LocIds, rok, wok \in BOOLEAN : \E q \in QueueIdDraws(l) : LeaveQueue(l, q, rok, wok)
    \/ \E l \in LocIds, wok \in BOOLEAN : DeleteLocation(l, wok)

Spec == Init /\ [][Next]_vars

\* every call on one location, no storage call failing
NextNoFailure ==
    \/ \E l \in QueueLocIds : CreateLocation(l, TRUE)
    \/ \E l \in LocIds, s \in UniqueIdDraws : JoinQueue(l, s, TRUE, TRUE, QueueEntries)
    \/ \E l \in LocIds : ServeNext(l, TRUE, TRUE)
    \/ \E l \in LocIds : \E q \in QueueIdDraws(l) : LeaveQueue(l, q, TRUE, TRUE)
    \/ \E l \in LocIds : DeleteLocation(l, TRUE)

SpecNoFailure == Init /\ [][NextNoFailure]_vars

\* the requests of the web application on two locations, lookups included,
\* no storage call failing
NextApp ==
    \/ \E l \in LocationDraws : CreateLocation(l, TRUE)
    \/ \E l \in LocIds \cup {NoLoc}, n \in Names, s \in UniqueIdDraws :
            AppJoinQueue(l, n, s, TRUE, TRUE, MaxEntries)
    \/ \E l \in LocIds : ServeNext(l, TRUE, TRUE)
    \/ \E l \in LocIds : \E q \in QueueIdDraws(l) : LeaveQueue(l, q, TRUE, TRUE)
    \/ \E l \in LocIds : DeleteLocation(l, TRUE)
    \/ \E l \in LocIds : \E q \in QueueIdDraws(l) : GetQueuePosition(l, q, TRUE)
    \/ \E q \in QueueIds : GetLocationFromQueueId(q)

SpecApp == Init /\ [][NextApp]_vars

\* the system restarted over its stored data: the calls succeed, the listing
\* a restart begins with may fail
NextRestart ==
    \/ \E l \in LocationDraws : CreateLocation(l, TRUE)
    \/ \E l \in LocIds, s \in UniqueIdDraws : JoinQueue(l, s, TRUE, TRUE, MaxEntries)
    \/ \E l \in LocIds : DeleteLocation(l, TRUE)
    \/ \E l \in LocIds : \E q \in QueueIdDraws(l) : GetQueuePosition(l, q, TRUE)
    \/ \E q \in QueueIds : GetLocationFromQueueId(q)
    \/ \E rok \in BOOLEAN : LoadQueues(rok)

SpecRestart == Init /\ [][NextRestart]_vars

\* two requests at a time on one location of a remote table, no storage
\* failures
NextConcurrent ==
    \/ \E l \in QueueLocIds \cap LocationDraws : CreateLocation(l, TRUE)
    \/ \E r \in Requests, l \in LocIds : BeginRequest(r, "join", l, NoLoc)
    \/ \E r \in Requests, l \in LocIds : BeginRequest(r, "serve", l, NoLoc)
    \/ \E r \in Requests, l \in LocIds : \E q \in QueueIdDraws(l) : BeginRequest(r, "leave", l, q)
    \/ \E r \in Requests, s \in UniqueIdDraws : FinishRequest(r, s, RequestEntries)

SpecConcurrent == Init /\ [][NextConcurrent]_vars

\* ---- what the claims talk about -----------------------------------------
\* get_queue_list: the waiting entries sorted by position, as list indices
GetQueueList(loc) == SortByPosition(Waiting(loc.current_queue), loc.current_queue)

\* the locations a read without failure finds, and their queue
Exists(l) == Found(l, TRUE)
Queue(l) == GetLocation(l, TRUE).current_queue
ServedCount(l) == GetLocation(l, TRUE).served_count

\* the indices of the waiting entries of a queue, and their positions
WaitingSet(q) == {i \in 1..Len(q) : q[i].status = "waiting"}
PositionsOf(q) == {q[i].position : i \in WaitingSet(q)}

\* the waiting positions are exactly 1..N, without duplicates
Contiguous(q) ==
    /\ PositionsOf(q) = 1..Cardinality(WaitingSet(q))
    /\ \A i, j \in WaitingSet(q) : q[i].position = q[j].position => i = j

\* no two entries of the queue have the same id
DistinctIds(q) == \A i, j \in 1..Len(q) : q[i].id = q[j].id => i = j

\* the location record has no waiting entry
NoneWaiting(loc) ==
    \A i \in 1..Len(loc.current_queue) : loc.current_queue[i].status # "waiting"

\* every entry that is served or left in the copy d of the locations is there
\* with the same status in the later copy e
TerminalKept(d, e) ==
    \A l \in (DOMAIN d) \cap (DOMAIN e) :
        \A i \in 1..Len(d[l].current_queue) :
            d[l].current_queue[i].status \in {"served", "left"} =>
                /\ i <= Len(e[l].current_queue)
                /\ e[l].current_queue[i].status = d[l].current_queue[i].status

\* no location's served_count is smaller in the later copy e than in d
CountKept(d, e) ==
    \A l \in (DOMAIN d) \cap (DOMAIN e) : e[l].served_count >= d[l].served_count

\* the last call was op and took the code path path
Did(op, path) == last.op = op /\ last.path = path

\* this step is the call op on location l, taking the code path path
Step(op, path, l) == last'.op = op /\ last'.path = path /\ last'.loc = l

\* ---- C1 -----------------------------------------------------------------
\* C1: without storage failures, in every reachable state the positions of
\* the waiting entries of each location are exactly 1..N, N the number of
\* waiting entries: no gaps, no duplicates.
C1_PositionsContiguous ==
    \A l \in LocIds : Exists(l) => Contiguous(Queue(l))

\* ---- C2 -----------------------------------------------------------------
\* C2: the queue is served in join order: whenever serve_next returns an
\* entry B, no entry A with another id that joined before B (an earlier
\* element of the list) is still waiting.
C2_ServedInJoinOrder ==
    [][\A l \in LocIds : Step("serve", "ok", l) =>
        \A a \in WaitingSet(Queue(l)) :
            Queue(l)[a].id # Queue(l)[last'.idx].id => a >= last'.idx]_vars

C4_JoinsInOrder ==
    \A l \in LocIds :
        (Exists(l) /\ WaitingSet(Queue(l)) = 1..Len(Queue(l))) =>
            \A k \in 1..Len(Queue(l)) : Queue(l)[k].position = k

\* three joins in a row on a new location
C4_Witness ==
    /\ Did("join", "ok")
    /\ Len(Queue(last.loc)) = 3
    /\ WaitingSet(Queue(last.loc)) = 1..3
    /\ last.idx = 3

\* ---- C5 -----------------------------------------------------------------
\* C5: after a successful leave_queue of a waiting entry in a location with
\* N waiting entries, the remaining N-1 waiting entries have positions
\* exactly 1..N-1, and of two remaining entries the one with the smaller
\* position before the leave has the smaller position after it.
C5_LeaveRenumbers ==
    [][\A l \in LocIds : Step("leave", "ok", l) =>
        /\ last'.idx \in WaitingSet(Queue(l))
        /\ WaitingSet(Queue(l)') = WaitingSet(Queue(l)) \ {last'.idx}
        /\ Contiguous(Queue(l)')
        /\ \A a, b \in WaitingSet(Queue(l)') :
               Queue(l)[a].position < Queue(l)[b].position =>
                   Queue(l)'[a].position < Queue(l)'[b].position]_vars

\* a leave that left two entries waiting in a queue that had served before
\* (so that the positions before the leave did not start at 1)
C5_Witness ==
    /\ Did("leave", "ok")
    /\ Cardinality(WaitingSet(Queue(last.loc))) = 2
    /\ \E i \in 1..Len(Queue(last.loc)) : Queue(last.loc)[i].status = "served"

\* ---- C6 -----------------------------------------------------------------
\* C6: without storage failures, serve_next on a location with at least one
\* waiting entry returns a waiting entry whose position is the minimum among
\* the waiting entries (the first element of get_queue_list), sets exactly
\* that entry's status to 'served' and adds exactly 1 to served_count.
C6_ServesMinimum ==
    [][\A l \in LocIds :
        (last'.op = "serve" /\ last'.loc = l /\ Exists(l)
            /\ WaitingSet(Queue(l)) # {}) =>
        /\ last'.path = "ok"
        /\ last'.idx \in WaitingSet(Queue(l))
        /\ \A j \in WaitingSet(Queue(l)) :
               Queue(l)[last'.idx].position <= Queue(l)[j].position
        /\ last'.idx = GetQueueList(GetLocation(l, TRUE))[1]
        /\ Queue(l)' = [Queue(l) EXCEPT ![last'.idx].status = "served"]
        /\ ServedCount(l)' = ServedCount(l) + 1]_vars

\* a serve_next that passed over an entry that is earlier in the list
C6_Witness ==
    /\ Did("serve", "ok")
    /\ \E a \in WaitingSet(Queue(last.loc)) : a < last.idx

\* ---- C7 -----------------------------------------------------------------
\* C7: serve_next on an existing location with no waiting entry returns
\* nothing by the 'empty' path, and that path writes neither the table nor
\* the file and leaves the location record as it was read (self.queues holds
\* its former copy or the copy just read from the table).
C7_EmptyChangesNothing ==
    [][\A l \in LocIds :
        /\ (last'.op = "serve" /\ last'.loc = l
                /\ l \in DOMAIN queues /\ NoneWaiting(queues[l])
                /\ (mode = "remote" =>
                        l \in DOMAIN table /\ NoneWaiting(table[l])))
            => last'.path = "empty"
        /\ Step("serve", "empty", l) =>
            /\ last'.idx = 0
            /\ table' = table
            /\ data_file' = data_file
            /\ \/ queues' = queues
               \/ mode = "remote" /\ l \in DOMAIN table
                    /\ queues' = Put(queues, l, table[l])]_vars

\* serve_next found a location whose entries have all been served or left
C7_Witness ==
    /\ Did("serve", "empty")
    /\ last.loc \in DOMAIN queues
    /\ Len(queues[last.loc].current_queue) >= 2

\* ---- C8 -----------------------------------------------------------------
\* C8: a waiting entry that reports position p is the p-th to be served.
\* For the next successful serve_next this says: the entry returned is one
\* that reported position 1, and an entry that reported position 1 is the
\* one returned.
C8_PositionIsServiceOrder ==
    [][\A l \in LocIds : (Step("serve", "ok", l) /\ DistinctIds(Queue(l))) =>
        \A e \in WaitingSet(Queue(l)) :
            (e = last'.idx) <=> (Queue(l)[e].position = 1)]_vars

\* ---- C9 -----------------------------------------------------------------
\* C9: in each copy of a location that get_location hands to the operations
\* (the table's record, the record in self.queues), an entry whose status is
\* 'served' or 'left' keeps that status whatever call comes next.
C9_TerminalIsFinal ==
    [][TerminalKept(table, table') /\ TerminalKept(queues, queues')]_vars

\* ---- C10 ----------------------------------------------------------------
\* C10: the served_count that get_location reports for an existing location
\* (from the table, or from self.queues on fallback) never decreases.
C10_ServedCountMonotone ==
    [][CountKept(table, table') /\ CountKept(queues, queues')]_vars

\* ---- C11 ----------------------------------------------------------------
\* C11: get_queue_position(l, q) on an existing location returns a result
\* when q is the id of an entry of l that is waiting, and returns None when
\* q is the id of an entry of l that is served or left: for every entry of
\* l with id q, the call returns a result exactly if that entry is waiting.
C11_PositionOnlyWhileWaiting ==
    [][\A l \in LocIds, q \in QueueIds :
        (GetQueuePosition(l, q, TRUE) /\ Exists(l)) =>
            \A i \in 1..Len(Queue(l)) :
                Queue(l)[i].id = q =>
                    (last'.path = "ok" <=> Queue(l)[i].status = "waiting")]_vars

\* ---- C12 ----------------------------------------------------------------
\* whether the list q has a waiting entry with the id qid
HasWaiting(q, qid) ==
    \E i \in 1..Len(q) : q[i].id = qid /\ q[i].status = "waiting"

\* C12: a leave_queue(l, q) whose store write, if it makes one, succeeds
\* returns True exactly if the location it reads (the table's record, or the
\* record in self.queues in local mode and when the remote read fails) has an
\* entry with id q and status 'waiting'; otherwise (no such location, unknown id,
\* id of an entry of another location, entry already served or left, second
\* leave) it returns False, writes neither the table nor the file, and leaves
\* self.queues as it was or as the copy just read from the table.  (The
\* remote read of such a call has failed exactly if the step counts a
\* failure.)
C12_LeaveOnlyWaiting ==
    [][\A l \in LocIds :
        (last'.op = "leave" /\ last'.loc = l /\ last'.path # "error") =>
            LET rok == failures' = failures
                read == IF mode = "remote" /\ rok THEN table ELSE queues
                has(q) == /\ l \in DOMAIN read
                          /\ HasWaiting(read[l].current_queue, q)
            IN  /\ \A q \in QueueIds :
                       \/ (last'.path = "ok" <=> has(q))
                       \/ ~LeaveQueue(l, q, rok, TRUE)
                /\ Outcome(last') = (IF last'.path = "ok" THEN "True" ELSE "False")
                /\ last'.path # "ok" =>
                    /\ table' = table
                    /\ data_file' = data_file
                    /\ \/ queues' = queues
                       \/ /\ mode = "remote"
                          /\ l \in DOMAIN table
                          /\ queues' = Put(queues, l, table[l])]_vars

\* a second leave_queue of an entry that has left, in a location where
\* another entry is still waiting
C12_Witness ==
    /\ Did("leave", "nomatch")
    /\ Exists(last.loc)
    /\ \E i, j \in 1..Len(Queue(last.loc)) :
        /\ Queue(last.loc)[i].status = "left"
        /\ Queue(last.loc)[j].status = "waiting"

\* ---- C13 ----------------------------------------------------------------
\* every location of the copy d that is still in the later copy e is there
\* unchanged, or has there all the entries it has in d, at the same place in
\* the list, with the same id and with a status
IdsKept(d, e) ==
    \A l \in (DOMAIN d) \cap (DOMAIN e) :
        \/ e[l] = d[l]
        \/ /\ Len(e[l].current_queue) >= Len(d[l].current_queue)
           /\ \A i \in 1..Len(d[l].current_queue) :
               /\ e[l].current_queue[i].id = d[l].current_queue[i].id
               /\ e[l].current_queue[i].status \in {"waiting", "served", "left"}

\* C13: while a location exists no call removes an entry that a successful
\* join_queue has made: the table's record (remote mode), the record in
\* self.queues and in the file (local mode) only ever grow, and in remote
\* mode the record in self.queues, which get_location returns when the read
\* fails, holds every entry of the table's record.
C13_EntriesKept ==
    [][/\ IdsKept(table, table')
       /\ IdsKept(data_file, data_file')
       /\ mode = "local" => IdsKept(queues, queues')
       /\ mode = "remote" => IdsKept(table', queues')]_vars

\* a leave_queue in a location that has a served entry too: both entries are
\* still in the list the store holds
C13_Witness ==
    /\ Did("leave", "ok")
    /\ Exists(last.loc)
    /\ Len(Queue(last.loc)) = 2
    /\ \E i, j \in 1..2 :
        /\ Queue(last.loc)[i].status = "served"
        /\ Queue(last.loc)[j].status = "left"

\* ---- C14 ----------------------------------------------------------------
\* C14: a join_queue, leave_queue or serve_next whose store write fails
\* hands its caller something else than what the same call returns when the
\* location is not found, the queue is empty or the entry is not waiting.
C14_WriteFailureSurfaced ==
    [][(last'.op \in {"join", "serve", "leave"} /\ last'.path = "error") =>
        \A p \in {"notfound", "empty", "nomatch"} :
            Outcome(last') # Outcome([last' EXCEPT !.path = p])]_vars

\* ---- C15 ----------------------------------------------------------------
\* C15: in remote mode, after a create_location, join_queue, serve_next or
\* leave_queue whose write to the table failed, the file holds the backup
\* (what save_queues writes as a backup is self.queues; the file itself is
\* writable in these runs, so a backup that is attempted is a backup made).
C15_BackupOnWriteFailure ==
    [][(/\ mode = "remote"
        /\ last'.op \in {"create", "join", "serve", "leave"}
        /\ last'.path = "error") => data_file' = queues']_vars

\* ---- C16 ----------------------------------------------------------------
\* this step is a join_queue, serve_next or leave_queue on location l whose
\* remote read failed
ReadFailedOn(l) ==
    \E wok \in BOOLEAN :
        \/ \E s \in Suffixes : JoinQueue(l, s, FALSE, wok, MaxEntries)
        \/ ServeNext(l, FALSE, wok)
        \/ \E q \in QueueIds : LeaveQueue(l, q, FALSE, wok)

\* C16: in remote mode a join_queue, serve_next or leave_queue whose remote
\* read of the location fails goes on with the copy the local file holds: it
\* reports 'not found' exactly if the file has no copy, and the record it
\* leaves in self.queues has the entries of the file's copy.
C16_ReadFallsBackToFile ==
    [][\A l \in LocIds : (mode = "remote" /\ ReadFailedOn(l)) =>
        /\ last'.path = "notfound" <=> l \notin DOMAIN data_file
        /\ l \in DOMAIN data_file =>
            /\ l \in DOMAIN queues'
            /\ IdsKept(data_file, queues')]_vars

\* ---- C17 ----------------------------------------------------------------
\* C17: a join request whose user_name is missing or empty is answered with
\* the validation message, whatever the store would do (reads or writes
\* failing or not): no storage call is made or fails, and the table,
\* self.queues and the file are unchanged.
C17_EmptyNameRejected ==
    [][\A l \in LocIds \cup {NoLoc} : (last'.op = "join" /\ last'.loc = l) =>
        \A s \in Suffixes, rok, wok \in BOOLEAN :
         AppJoinQueue(l, "", s, rok, wok, MaxEntries) =>
            /\ last'.path = "invalid"
            /\ Outcome(last') = "Missing required fields"
            /\ UNCHANGED <<table, queues, data_file, failures>>]_vars

\* a join request without a name for a location that has an entry waiting
C17_Witness ==
    /\ Did("join", "invalid")
    /\ last.loc \in DOMAIN queues
    /\ WaitingSet(queues[last.loc].current_queue) # {}

\* ---- C18 ----------------------------------------------------------------
\* C18: join_queue on a location id that is neither in the table nor in
\* self.queues returns None by the 'not found' path, whether or not the
\* remote read fails, and changes nothing: no location and no entry is made
\* in the table, in self.queues or in the file.
C18_JoinUnknownLocation ==
    [][\A l \in LocIds :
        (/\ last'.op = "join" /\ last'.loc = l
         /\ l \notin DOMAIN table
         /\ l \notin DOMAIN queues) =>
        \A s \in Suffixes, rok, wok \in BOOLEAN :
         JoinQueue(l, s, rok, wok, MaxEntries) =>
            /\ last'.path = "notfound"
            /\ Outcome(last') = "None"
            /\ UNCHANGED <<table, queues, data_file>>]_vars

\* a join_queue on a location that has been deleted, or whose creation
\* failed, while another location has an entry
C18_Witness ==
    /\ Did("join", "notfound")
    /\ last.loc \notin DOMAIN queues
    /\ last.loc \notin DOMAIN table
    /\ \E l \in DOMAIN queues : Len(queues[l].current_queue) >= 1

\* ---- C19 ----------------------------------------------------------------
\* C19: right after a successful join_queue on location l,
\* get_location_from_queue_id of the id the join returned is l, whatever
\* other locations there are.
C19_LocationFromEntryId ==
    [][\A l \in LocIds : Step("join", "ok", l) =>
        LocationFromQueueId(queues', Queue(l)'[last'.idx].id) = l]_vars

\* ---- C20 ----------------------------------------------------------------
\* the set of ids of the entries of the copy d
EntryIds(d) ==
    UNION {{d[l].current_queue[i].id : i \in 1..Len(d[l].current_queue)} :
              l \in DOMAIN d}

\* C20: in every reachable state no two entries, of the same location or of
\* different ones, have the same id: each copy of the locations has as many
\* ids as it has entries.
C20_EntryIdsUnique ==
    /\ Cardinality(EntryIds(table)) = TotalEntries(table)
    /\ Cardinality(EntryIds(queues)) = TotalEntries(queues)
    /\ Cardinality(EntryIds(data_file)) = TotalEntries(data_file)

\* ---- C21 ----------------------------------------------------------------
\* location l is in no copy a call reads or persists: not in the table, not
\* in self.queues, not in the file the local mode writes
Gone(l) ==
    /\ l \notin DOMAIN table
    /\ l \notin DOMAIN queues
    /\ mode = "local" => l \notin DOMAIN data_file

\* the last call was a join_queue, serve_next, leave_queue or
\* get_queue_position on l that found a location
FoundBy(l) ==
    /\ last.loc = l
    /\ last.op \in {"join", "serve", "leave", "position"}
    /\ last.path \notin {"notfound", "invalid"}

\* C21: from the state in which delete_location(l) has returned True on, l
\* is in neither the table nor self.queues (nor the file of the local mode),
\* get_location(l) finds nothing, and every join_queue, serve_next,
\* leave_queue and get_queue_position on l takes the 'not found' path.
C21_DeletedStaysGone ==
    \A l \in LocIds :
        [](( Did("delete", "ok") /\ last.loc = l) =>
              [](Gone(l) /\ ~Exists(l) /\ ~FoundBy(l)))

\* a get_queue_position on a location that has been deleted, while another
\* location is still there
C21_Witness ==
    /\ Did("position", "notfound")
    /\ last.loc \in used
    /\ Gone(last.loc)
    /\ DOMAIN queues # {}

\* ---- C22 ----------------------------------------------------------------
\* C22: in remote mode a call whose storage calls succeed answers from the
\* table alone, whatever self.queues holds: join_queue, serve_next,
\* leave_queue, get_queue_position and delete_location on l take the 'not
\* found' path exactly when the table has no l, a delete_location(l) leaves
\* the table without l, and get_location_from_queue_id returns the location
\* the keys of the table give.
C22_StoreIsTruth ==
    [][(mode = "remote" /\ failures' = failures) =>
          /\ \A l \in LocIds :
                (/\ last'.loc = l
                 /\ last'.op \in {"join", "serve", "leave", "position", "delete"})
                => /\ last'.path = "notfound" <=> l \notin DOMAIN table
                   /\ last'.op = "delete" => table' = Del(table, l)
          /\ \A q \in QueueIds :
                GetLocationFromQueueId(q) =>
                    last'.loc = LocationFromQueueId(table, q)]_vars

\* ---- C23 ----------------------------------------------------------------
\* the ids of the entries the table holds for location l
StoredIds(l) == {table[l].current_queue[i].id : i \in 1..Len(table[l].current_queue)}

\* C23: the write of a request that reports success stores the record the
\* request read with its own mutation and nothing else: the entries it read,
\* with one more entry for a join_queue and one status changed for a
\* serve_next or leave_queue, and the served counter it read, one higher for
\* a serve_next; what another request wrote to the location between this
\* request's read and its write is not in the stored record.
C23_LostUpdate ==
    [][\A r \in Requests :
          (/\ requests[r].pc = "read"
           /\ requests'[r].pc = "done"
           /\ requests'[r].path = "ok")
          => LET op == requests[r].op
                 old == requests[r].obj
                 new == table'[requests[r].loc]
             IN  /\ Len(new.current_queue) =
                       Len(old.current_queue) + (IF op = "join" THEN 1 ELSE 0)
                 /\ \A i \in 1..Len(old.current_queue) :
                       new.current_queue[i].id = old.current_queue[i].id
                 /\ Cardinality({i \in 1..Len(old.current_queue) :
                                    new.current_queue[i].status
                                        # old.current_queue[i].status})
                       = (IF op = "join" THEN 0 ELSE 1)
                 /\ new.served_count =
                       old.served_count + (IF op = "serve" THEN 1 ELSE 0)]_vars

\* both requests have returned the id of a join_queue on the same location,
\* two different ids, and the table holds the entry of only one of them
C23_Witness ==
    /\ \A r \in Requests :
          /\ requests[r].pc = "done"
          /\ requests[r].op = "join"
          /\ requests[r].path = "ok"
    /\ requests["r1"].loc = requests["r2"].loc
    /\ requests["r1"].arg # requests["r2"].arg
    /\ requests["r1"].loc \in DOMAIN table
    /\ Cardinality({r \in Requests : requests[r].arg \in StoredIds(requests[r].loc)}) = 1

\* ---- C24 ----------------------------------------------------------------
\* C24: a join_queue on location l that returns a queue id makes the list of
\* l one entry longer; the new, last entry has status 'waiting' and position
\* = the number of entries of l that were waiting before the call + 1; every
\* entry l had keeps its id, status and position, and served_count stays.
C24_JoinAppendsOne ==
    [][\A l \in LocIds : Step("join", "ok", l) =>
        /\ Len(Queue(l)') = Len(Queue(l)) + 1
        /\ Queue(l)'[Len(Queue(l)')].status = "waiting"
        /\ Queue(l)'[Len(Queue(l)')].position =
              Cardinality(WaitingSet(Queue(l))) + 1
        /\ \A i \in 1..Len(Queue(l)) :
              /\ Queue(l)'[i].id = Queue(l)[i].id
              /\ Queue(l)'[i].status = Queue(l)[i].status
              /\ Queue(l)'[i].position = Queue(l)[i].position
        /\ ServedCount(l)' = ServedCount(l)]_vars

\* a join into a queue that holds a served entry, a left entry and an entry
\* still waiting
C24_Witness ==
    /\ Did("join", "ok")
    /\ last.idx = Len(Queue(last.loc))
    /\ ServedCount(last.loc) >= 1
    /\ \E i, j, k \in 1..(last.idx - 1) :
          /\ Queue(last.loc)[i].status = "served"
          /\ Queue(last.loc)[j].status = "left"
          /\ Queue(last.loc)[k].status = "waiting"

\* ---- C25 ----------------------------------------------------------------
\* C25: the dict a get_queue_position has returned for a waiting entry (the
\* call reads only, so the location is as the call found it) has the
\* position stored in the entry, total_in_queue = the number of waiting
\* entries of the location and estimated_wait = 5 * position, and
\* 1 <= position <= total_in_queue.
C25_PositionResult ==
    Did("position", "ok") =>
        LET q == Queue(last.loc)
            res == QueuePosition(GetLocation(last.loc, TRUE), last.idx)
        IN  /\ q[last.idx].status = "waiting"
            /\ res.position = q[last.idx].position
            /\ res.total_in_queue = Cardinality(WaitingSet(q))
            /\ res.estimated_wait = 5 * q[last.idx].position
            /\ 1 <= res.position
            /\ res.position <= res.total_in_queue

\* ---- C26 ----------------------------------------------------------------
\* C26: a join_queue, serve_next or leave_queue on l that reports failure
\* because its write failed changes nothing: the table and the file are as
\* before, and the record of l in self.queues, the one get_location returns
\* in local mode and on fallback in remote mode, is the record self.queues
\* held before the call or, in remote mode, the record the table holds.
C26_FailedWriteNoEffect ==
    [][\A l \in LocIds :
          (/\ last'.loc = l
           /\ last'.op \in {"join", "serve", "leave"}
           /\ last'.path = "error")
          => /\ table' = table
             /\ data_file' = data_file
             /\ l \in DOMAIN queues'
             /\ \/ l \in DOMAIN queues /\ queues'[l] = queues[l]
                \/ mode = "remote" /\ l \in DOMAIN table /\ queues'[l] = table[l]]_vars

\* ---- C27 ----------------------------------------------------------------
\* C27: without storage failures and with one call at a time, the
\* served_count of every location is the number of its entries with status
\* 'served', and get_queue_stats reports total_served = served_count.
C27_CounterCountsServed ==
    \A l \in LocIds : Exists(l) =>
        /\ ServedCount(l) =
              Cardinality({i \in 1..Len(Queue(l)) : Queue(l)[i].status = "served"})
        /\ GetQueueStats(GetLocation(l, TRUE)).total_served =
              GetQueueStats(GetLocation(l, TRUE)).served_count

\* a location that has served twice, with an entry that left and one waiting
C27_Witness ==
    /\ Exists(FirstId)
    /\ ServedCount(FirstId) = 2
    /\ \E i, j \in 1..Len(Queue(FirstId)) :
          /\ Queue(FirstId)[i].status = "left"
          /\ Queue(FirstId)[j].status = "waiting"

\* ---- C28 ----------------------------------------------------------------
\* the copy e holds for location m what the copy d holds for it
SameRecord(d, e, m) ==
    /\ m \in DOMAIN d <=> m \in DOMAIN e
    /\ m \in DOMAIN d => e[m] = d[m]

\* C28: a join_queue, serve_next or leave_queue on location l, whatever its
\* outcome, leaves the record of every other location as it was in the
\* table, in the file and in self.queues.
C28_LocationsIsolated ==
    [][\A l \in LocIds :
          (last'.loc = l /\ last'.op \in {"join", "serve", "leave"}) =>
              \A m \in LocIds \ {l} :
                  /\ SameRecord(table, table', m)
                  /\ SameRecord(data_file, data_file', m)
                  /\ SameRecord(queues, queues', m)]_vars

====
